---- MODULE Spec2Model ----
(***************************************************************************)
(* State-machine model of the SOS rules engine in src/game_logic.py:       *)
(* BaseSOSGame (board, owners, turn, move counter, SOS detector) and the   *)
(* two variants SimpleSOSGame (first SOS wins) and GeneralSOSGame          *)
(* (cumulative scoring until the board is full).                           *)
(*                                                                         *)
(* One game object is modelled.  Python strings passed as `letter` are     *)
(* sequences of one-character strings so that strip() and upper() are      *)
(* computed, not assumed.  Python None is the string "None".               *)
(***************************************************************************)
EXTENDS Integers, Sequences, FiniteSets, TLC

\* ------------------------------------------------- constants and bounds
\* The minimum board size: self.board_size = max(3, int(board_size)).
MinBoardSize == 3

\* The constructor's default argument board_size = 3 (also the UI's default).
DefaultBoardSize == 3

\* Callers place at most MaxO letters "O" on the board in one game.
MaxO == 2

\* Callers fill the board in row-major order, except that at most MaxSkip
\* times in one game a caller skips the first empty cell and plays the second.
MaxSkip == 1

\* reset_game is called at most MaxResets times in one behaviour.
MaxResets == 1

\* After a reset_game call at most MaxMovesAfterReset further moves are explored.
MaxMovesAfterReset == 2

\* Query methods are called on games of at most MaxQueryMoves make_move calls.
MaxQueryMoves == 3

\* Query methods are called with rows and columns from -QueryMargin to
\* board_size - 1 + QueryMargin.
QueryMargin == 1

\* ---------------------------------------------------------------- inputs
None == "None"

\* Python True / False as returned by make_move.
True == "True"
False == "False"

\* (row, column) arguments of make_move that are out of bounds: negative,
\* too large, in one coordinate or in both.
OutOfBoundsInputs ==
  { <<-1, 0>>, <<0, -1>>, <<-1, -1>>, <<3, 0>>, <<0, 3>>, <<3, 3>>, <<-1, 3>> }

\* `letter` arguments of make_move, as character sequences.
LetterInputs ==
  { <<"S">>, <<"O">>, <<" ", "s">>, <<"o", " ">>, <<"X">>, <<" ">> }

Players == {"blue", "red"}

VARIABLES
  variant,           \* "simple" (SimpleSOSGame) or "general" (GeneralSOSGame)
  board,             \* self.board[r][c]  in {None, "S", "O"}
  owner_board,       \* self.owner_board[r][c] in {None, "blue", "red"}
  current_turn,      \* self.current_turn
  move_count,        \* self.move_count
  game_over,         \* self.game_over
  last_sos_lines,    \* self.last_sos_lines, a sequence of <<r1,c1,r2,c2>>
  last_move_player,  \* self.last_move_player
  winner,            \* SimpleSOSGame.winner (None in a GeneralSOSGame)
  scores,            \* GeneralSOSGame.scores (all 0 in a SimpleSOSGame)
  ret,               \* value returned by the last make_move call (None before)
  resets,            \* caller: number of reset_game calls made so far
  skips,             \* caller: number of out-of-order moves in this game
  query,             \* caller: <<method, <<r, c>>, result>> of the last query call
  placed             \* caller: the cells of the accepted moves, in order

gameVars ==
  <<board, owner_board, current_turn, move_count, game_over,
    last_sos_lines, last_move_player, winner, scores>>

vars ==
  <<variant, board, owner_board, current_turn, move_count,
    game_over, last_sos_lines, last_move_player, winner, scores, ret,
    resets, skips, query, placed>>

\* ------------------------------------------------------- string helpers
IsSpace(ch) == ch = " "

\* str.upper() on one character.
UpperChar(ch) ==
  CASE ch = "s" -> "S"
    [] ch = "o" -> "O"
    [] ch = "x" -> "X"
    [] OTHER -> ch

RECURSIVE LStrip(_)
LStrip(s) ==
  IF s = <<>> THEN s
  ELSE IF IsSpace(Head(s)) THEN LStrip(Tail(s)) ELSE s

RECURSIVE RStrip(_)
RStrip(s) ==
  IF s = <<>> THEN s
  ELSE IF IsSpace(s[Len(s)]) THEN RStrip(SubSeq(s, 1, Len(s) - 1)) ELSE s

\* str.strip()
Strip(s) == RStrip(LStrip(s))

\* str.upper()
Upper(s) == [i \in 1..Len(s) |-> UpperChar(s[i])]

\* letter = letter.strip().upper()
NormalizeLetter(letter) == Upper(Strip(letter))

\* letter in ("S", "O")
ValidLetter(letter) == letter \in { <<"S">>, <<"O">> }

\* ------------------------------------------------------- BaseSOSGame
EmptyGrid(n) == [r \in 0..(n - 1) |-> [c \in 0..(n - 1) |-> None]]

Max(a, b) == IF a >= b THEN a ELSE b

\* self.board_size as set by __init__ for the default argument
board_size == Max(MinBoardSize, DefaultBoardSize)

in_bounds(r, c) ==
  /\ 0 <= r /\ r < board_size
  /\ 0 <= c /\ c < board_size

\* faulty variant: the occupancy test is missing
cell_empty_anyCell(r, c) == in_bounds(r, c)

cell_empty(r, c) == in_bounds(r, c) /\ board[r][c] = None

get_cell(r, c) == IF ~in_bounds(r, c) THEN None ELSE board[r][c]

\* faulty variant: the letter is returned instead of the owner
get_cell_owner_letter(r, c) == IF ~in_bounds(r, c) THEN None ELSE board[r][c]

get_cell_owner(r, c) == IF ~in_bounds(r, c) THEN None ELSE owner_board[r][c]

\* faulty variants of toggle_turn: no toggle; always red
toggle_turn_stuck(t) == t

toggle_turn_toRed(t) == "red"

\* the value toggle_turn assigns to current_turn
toggle_turn(t) == IF t = "blue" THEN "red" ELSE "blue"

directions == << <<0, 1>>, <<1, 0>>, <<1, 1>>, <<1, -1>> >>

\* form_sos on the board b (the board after the placement)
form_sos(b, r, c, dr, dc) ==
  IF ~( /\ in_bounds(r, c)
        /\ in_bounds(r + dr, c + dc)
        /\ in_bounds(r + 2*dr, c + 2*dc) )
  THEN FALSE
  ELSE /\ b[r][c] = "S"
       /\ b[r + dr][c + dc] = "O"
       /\ b[r + 2*dr][c + 2*dc] = "S"

\* faulty variant: only the forward direction is tested
DirectionLines_forwardOnly(b, r, c, dr, dc) ==
  IF form_sos(b, r, c, dr, dc)
    THEN << <<r, c, r + 2*dr, c + 2*dc>> >> ELSE <<>>

\* One iteration of the loop of check_for_sos: direction d, then -d.
DirectionLines(b, r, c, dr, dc) ==
  (IF form_sos(b, r, c, dr, dc)
     THEN << <<r, c, r + 2*dr, c + 2*dc>> >> ELSE <<>>)
  \o
  (IF form_sos(b, r, c, -dr, -dc)
     THEN << <<r, c, r - 2*dr, c - 2*dc>> >> ELSE <<>>)

RECURSIVE CheckFrom(_, _, _, _)
CheckFrom(b, r, c, i) ==
  IF i > Len(directions) THEN <<>>
  ELSE DirectionLines(b, r, c, directions[i][1], directions[i][2])
         \o CheckFrom(b, r, c, i + 1)

check_for_sos(b, r, c) == CheckFrom(b, r, c, 1)

\* ------------------------------------------------------- method lookup
\* Methods defined by the classes of game_logic.py (inherited ones included).
Methods ==
  { "__init__", "reset_game", "in_bounds", "cell_empty", "toggle_turn",
    "get_cell", "get_cell_owner", "check_for_sos", "form_sos", "make_move" }

AttributeError == "AttributeError"

\* self.game.is_board_full() as evaluated by the caller in main.py
is_board_full ==
  IF "is_board_full" \in Methods
    THEN (IF move_count = board_size * board_size THEN True ELSE False)
    ELSE AttributeError

\* ------------------------------------------------------- initial state
ZeroScores == [p \in Players |-> 0]

\* no query method has been called yet
NoQuery == <<>>

Init ==
  /\ variant \in {"simple", "general"}
  /\ board = EmptyGrid(board_size)
  /\ owner_board = EmptyGrid(board_size)
  /\ current_turn = "blue"
  /\ move_count = 0
  /\ game_over = FALSE
  /\ last_sos_lines = <<>>
  /\ last_move_player = None
  /\ winner = None
  /\ scores = ZeroScores
  /\ ret = None
  /\ resets = 0
  /\ skips = 0
  /\ query = NoQuery
  /\ placed = <<>>

\* ------------------------------------------------------- reset_game
reset_game ==
  /\ board' = EmptyGrid(board_size)
  /\ current_turn' = "blue"
  /\ move_count' = 0
  /\ game_over' = FALSE
  /\ last_sos_lines' = <<>>
  /\ last_move_player' = None
  /\ owner_board' = EmptyGrid(board_size)
  /\ UNCHANGED <<variant, winner, scores, ret>>

\* ------------------------------------------------------- make_move
\* The early returns of make_move (both variants have the same ones).
Rejected(r, c, letter) ==
  \/ game_over
  \/ ~ValidLetter(NormalizeLetter(letter))
  \/ ~cell_empty(r, c)

\* faulty variant: row and column swapped
Placed_transposed(r, c, ch) == [board EXCEPT ![c][r] = ch]

\* board after self.board[r][c] = letter
Placed(r, c, ch) == [board EXCEPT ![r][c] = ch]

\* faulty variant: the owner is not recorded
Owned_forgotten(r, c) == owner_board

\* faulty variant: the owner is taken after the turn has toggled
Owned_afterToggle(r, c) ==
  [owner_board EXCEPT ![r][c] = toggle_turn(current_turn)]

\* owner_board after self.owner_board[r][c] = self.current_turn
Owned(r, c) == [owner_board EXCEPT ![r][c] = current_turn]

\* faulty variant: one point per scoring move
AddScore_one(sos_lines) == [scores EXCEPT ![current_turn] = @ + 1]

\* scores after self.scores[self.current_turn] += len(sos_lines)
AddScore(sos_lines) == [scores EXCEPT ![current_turn] = @ + Len(sos_lines)]

\* faulty variant: > instead of >=
BoardFull_offByOne(mc) == mc > board_size * board_size

\* self.move_count >= self.board_size * self.board_size
BoardFull(mc) == mc >= board_size * board_size

\* faulty variant: a full board also sets game_over, as in GeneralSOSGame
SimpleSOSGame_make_move_fullEnds(r, c, letter) ==
  /\ variant = "simple"
  /\ IF Rejected(r, c, letter)
     THEN /\ ret' = False
          /\ UNCHANGED variant
          /\ UNCHANGED gameVars
     ELSE LET l == NormalizeLetter(letter)[1]
              b == Placed(r, c, l)
              sos_lines == check_for_sos(b, r, c)
          IN /\ board' = b
             /\ move_count' = move_count + 1
             /\ owner_board' = Owned(r, c)
             /\ last_move_player' = current_turn
             /\ last_sos_lines' = sos_lines
             /\ IF sos_lines # <<>>
                THEN /\ winner' = current_turn
                     /\ game_over' = TRUE
                     /\ UNCHANGED current_turn
                ELSE /\ current_turn' = toggle_turn(current_turn)
                     /\ game_over' = BoardFull(move_count + 1)
                     /\ UNCHANGED winner
             /\ ret' = True
             /\ UNCHANGED <<variant, scores>>

SimpleSOSGame_make_move(r, c, letter) ==
  /\ variant = "simple"
  /\ IF Rejected(r, c, letter)
     THEN /\ ret' = False
          /\ UNCHANGED variant
          /\ UNCHANGED gameVars
     ELSE LET l == NormalizeLetter(letter)[1]
              b == Placed(r, c, l)
              sos_lines == check_for_sos(b, r, c)
          IN /\ board' = b
             /\ move_count' = move_count + 1
             /\ owner_board' = Owned(r, c)
             /\ last_move_player' = current_turn
             /\ last_sos_lines' = sos_lines
             /\ IF sos_lines # <<>>
                THEN /\ winner' = current_turn
                     /\ game_over' = TRUE
                     /\ UNCHANGED current_turn
                ELSE /\ current_turn' = toggle_turn(current_turn)
                     /\ UNCHANGED <<winner, game_over>>
             /\ ret' = True
             /\ UNCHANGED <<variant, scores>>

GeneralSOSGame_make_move(r, c, letter) ==
  /\ variant = "general"
  /\ IF Rejected(r, c, letter)
     THEN /\ ret' = False
          /\ UNCHANGED variant
          /\ UNCHANGED gameVars
     ELSE LET l == NormalizeLetter(letter)[1]
              b == Placed(r, c, l)
              sos_lines == check_for_sos(b, r, c)
          IN /\ board' = b
             /\ move_count' = move_count + 1
             /\ owner_board' = Owned(r, c)
             /\ last_move_player' = current_turn
             /\ last_sos_lines' = sos_lines
             /\ scores' = IF sos_lines # <<>> THEN AddScore(sos_lines) ELSE scores
             /\ current_turn' = toggle_turn(current_turn)
             /\ game_over' = IF BoardFull(move_count + 1) THEN TRUE ELSE game_over
             /\ ret' = True
             /\ UNCHANGED <<variant, winner>>

\* ------------------------------------------------------- callers
Cells == (0..(board_size - 1)) \X (0..(board_size - 1))

CallInputs == Cells \cup OutOfBoundsInputs

NumO == Cardinality({rc \in Cells : board[rc[1]][rc[2]] = "O"})

\* number of empty cells before (r, c) in row-major order
EmptyBefore(r, c) ==
  Cardinality({rc \in Cells : /\ board[rc[1]][rc[2]] = None
                              /\ rc[1] * board_size + rc[2] < r * board_size + c})

\* The calls the callers make: at most MaxO letters "O" per game, cells in
\* row-major order up to MaxSkip skips, and a bounded number of moves after a
\* reset.  A rejected call is not repeated right after a rejected call: it
\* would leave every variable, ret included, as it is.
CallAllowed(r, c, letter) ==
  /\ resets = 0 \/ move_count < MaxMovesAfterReset
  /\ ret = False => ~Rejected(r, c, letter)
  /\ (NormalizeLetter(letter) = <<"O">>) => NumO < MaxO
  /\ cell_empty(r, c) =>
        \/ EmptyBefore(r, c) = 0
        \/ EmptyBefore(r, c) = 1 /\ skips < MaxSkip

\* the caller's bookkeeping after a call on (r, c)
CountSkip(r, c) ==
  /\ skips' = IF ret' = True /\ EmptyBefore(r, c) > 0 THEN skips + 1 ELSE skips
  /\ UNCHANGED <<resets, query, placed>>

SimpleMove ==
  /\ variant = "simple"
  /\ \E rc \in CallInputs, letter \in LetterInputs :
       /\ CallAllowed(rc[1], rc[2], letter)
       /\ SimpleSOSGame_make_move(rc[1], rc[2], letter)
       /\ CountSkip(rc[1], rc[2])

GeneralMove ==
  /\ variant = "general"
  /\ \E rc \in CallInputs, letter \in LetterInputs :
       /\ CallAllowed(rc[1], rc[2], letter)
       /\ GeneralSOSGame_make_move(rc[1], rc[2], letter)
       /\ CountSkip(rc[1], rc[2])

Reset ==
  /\ resets < MaxResets
  /\ reset_game
  /\ resets' = resets + 1
  /\ skips' = 0
  /\ UNCHANGED <<query, placed>>

Next == SimpleMove \/ GeneralMove

Spec == Init /\ [][Next]_vars

\* a make_move call of a GeneralSOSGame that is accepted
GeneralAccepted == GeneralMove /\ ret' = True

\* callers that keep making legal moves while the game accepts one
InitGeneral == Init /\ variant = "general"

SpecGeneralFair ==
  InitGeneral /\ [][GeneralMove]_vars /\ WF_vars(GeneralAccepted)

\* a make_move call of a GeneralSOSGame whose caller writes down the cell of
\* every accepted move
GeneralMoveLogged ==
  /\ variant = "general"
  /\ \E rc \in CallInputs, letter \in LetterInputs :
       /\ CallAllowed(rc[1], rc[2], letter)
       /\ GeneralSOSGame_make_move(rc[1], rc[2], letter)
       /\ skips' = IF ret' = True /\ EmptyBefore(rc[1], rc[2]) > 0
                   THEN skips + 1 ELSE skips
       /\ placed' = IF ret' = True THEN Append(placed, rc) ELSE placed
       /\ UNCHANGED <<resets, query>>

SpecGeneralLogged == InitGeneral /\ [][GeneralMoveLogged]_vars

NextReset == SimpleMove \/ GeneralMove \/ Reset

SpecReset == Init /\ [][NextReset]_vars

\* ------------------------------------------------------- the detector alone
\* Every board, each reached by a GeneralSOSGame whose callers play the
\* non-empty cells in row-major order: Replay makes those moves one by one.
CellValues == {None, "S", "O"}

AllBoards == [0..(board_size - 1) -> [0..(board_size - 1) -> CellValues]]

\* the game state before any move, as a record
FreshGame ==
  [ board |-> EmptyGrid(board_size), owner_board |-> EmptyGrid(board_size),
    current_turn |-> "blue", move_count |-> 0, game_over |-> FALSE,
    last_sos_lines |-> <<>>, last_move_player |-> None, scores |-> ZeroScores ]

\* GeneralSOSGame.make_move(r, c, ch) on the record g, for an accepted move
MoveOn(g, r, c, ch) ==
  LET b == [g.board EXCEPT ![r][c] = ch]
      sos_lines == check_for_sos(b, r, c)
  IN [ board |-> b,
       owner_board |-> [g.owner_board EXCEPT ![r][c] = g.current_turn],
       current_turn |-> toggle_turn(g.current_turn),
       move_count |-> g.move_count + 1,
       game_over |-> BoardFull(g.move_count + 1),
       last_sos_lines |-> sos_lines,
       last_move_player |-> g.current_turn,
       scores |-> [g.scores EXCEPT ![g.current_turn] = @ + Len(sos_lines)] ]

\* the game after the cells i, i+1, ... of target (row-major) have been played
RECURSIVE Replay(_, _, _)
Replay(g, target, i) ==
  IF i >= board_size * board_size THEN g
  ELSE LET r == i \div board_size
           c == i % board_size
       IN IF target[r][c] = None
          THEN Replay(g, target, i + 1)
          ELSE Replay(MoveOn(g, r, c, target[r][c]), target, i + 1)

InitBoards ==
  /\ variant = "general"
  /\ \E target \in AllBoards :
       \E g \in {Replay(FreshGame, target, 0)} :
          /\ board = g.board
          /\ owner_board = g.owner_board
          /\ current_turn = g.current_turn
          /\ move_count = g.move_count
          /\ game_over = g.game_over
          /\ last_sos_lines = g.last_sos_lines
          /\ last_move_player = g.last_move_player
          /\ scores = g.scores
  /\ winner = None
  /\ ret = None
  /\ resets = 0
  /\ skips = 0
  /\ query = NoQuery
  /\ placed = <<>>

\* a caller calls check_for_sos(r, c) once; the method assigns no attribute
CheckForSosCall ==
  /\ query = NoQuery
  /\ \E rc \in CallInputs :
       query' = <<"check_for_sos", rc, check_for_sos(board, rc[1], rc[2])>>
  /\ UNCHANGED <<variant, ret, resets, skips, placed>>
  /\ UNCHANGED gameVars

NextDetector == CheckForSosCall

SpecDetector == InitBoards /\ [][NextDetector]_vars

\* ------------------------------------------------------- the query methods
QueryCoords ==
  ((0 - QueryMargin)..(board_size - 1 + QueryMargin))
    \X ((0 - QueryMargin)..(board_size - 1 + QueryMargin))

\* a query method assigns no attribute; the caller keeps its result
QueryFrame ==
  /\ query = NoQuery
  /\ UNCHANGED <<variant, ret, resets, skips, placed>>
  /\ UNCHANGED gameVars

InBoundsCall ==
  /\ \E rc \in QueryCoords : query' = <<"in_bounds", rc, in_bounds(rc[1], rc[2])>>
  /\ QueryFrame

CellEmptyCall ==
  /\ \E rc \in QueryCoords : query' = <<"cell_empty", rc, cell_empty(rc[1], rc[2])>>
  /\ QueryFrame

GetCellCall ==
  /\ \E rc \in QueryCoords : query' = <<"get_cell", rc, get_cell(rc[1], rc[2])>>
  /\ QueryFrame

GetCellOwnerCall ==
  /\ \E rc \in QueryCoords :
       query' = <<"get_cell_owner", rc, get_cell_owner(rc[1], rc[2])>>
  /\ QueryFrame

\* make_move calls, while no query has been made and the game is short
QueryGameMove ==
  /\ query = NoQuery
  /\ move_count < MaxQueryMoves
  /\ (SimpleMove \/ GeneralMove)

NextQuery ==
  \/ QueryGameMove
  \/ InBoundsCall
  \/ CellEmptyCall
  \/ GetCellCall
  \/ GetCellOwnerCall

SpecQuery == Init /\ [][NextQuery]_vars

\* ------------------------------------------------------- properties
\* make_move of the variant in play, as a relation between two states
make_move(r, c, letter) ==
  \/ SimpleSOSGame_make_move(r, c, letter)
  \/ GeneralSOSGame_make_move(r, c, letter)

Letters == {"S", "O"}

\* The three-cell spans of the board: <<first, middle, last>> along a row, a
\* column or a diagonal (each span once, in its forward direction).
Triples ==
  { t \in { << rc,
               <<rc[1] + directions[i][1], rc[2] + directions[i][2]>>,
               <<rc[1] + 2 * directions[i][1], rc[2] + 2 * directions[i][2]>> >> :
             rc \in Cells, i \in 1..Len(directions) } :
      t[2] \in Cells /\ t[3] \in Cells }

ReadsSOS(b, t) ==
  /\ b[t[1][1]][t[1][2]] = "S"
  /\ b[t[2][1]][t[2][2]] = "O"
  /\ b[t[3][1]][t[3][2]] = "S"

\* the cells a step fills
Filled == {rc \in Cells : board[rc[1]][rc[2]] = None /\ board'[rc[1]][rc[2]] # None}

\* A call the claims say must be refused, stated without the model's helpers:
\* game over, a letter that does not normalize to S or O, a coordinate outside
\* 0..N-1, or a cell that already holds a letter.
InvalidCall(r, c, letter) ==
  \/ game_over
  \/ NormalizeLetter(letter) \notin { <<"S">>, <<"O">> }
  \/ r \notin 0..(board_size - 1)
  \/ c \notin 0..(board_size - 1)
  \/ board[r][c] # None

\* C1: in both variants a make_move call made when the game is over, with a
\* letter that does not normalize to S or O, with out-of-bounds coordinates or
\* on an occupied cell returns False and changes no state variable.
C1_RejectedCallChangesNothing ==
  [][ \/ ret' = False /\ UNCHANGED gameVars
      \/ \A rc \in CallInputs, letter \in LetterInputs :
           ~(InvalidCall(rc[1], rc[2], letter) /\ make_move(rc[1], rc[2], letter))
    ]_vars

\* a call was refused after the game had ended, with letters on the board
C1_Witness == ret = False /\ game_over /\ move_count > 0

\* C2: every make_move call that returns True changes exactly the cell (r, c)
\* passed in from empty to the normalized letter, keeps the value and owner of
\* every other cell, and adds exactly 1 to move_count.
C2_SuccessfulMoveFillsOneCell ==
  [][ \/ ret' # True
      \/ \A rc \in CallInputs, letter \in LetterInputs :
           make_move(rc[1], rc[2], letter) =>
             /\ rc \in Cells
             /\ board[rc[1]][rc[2]] = None
             /\ <<board'[rc[1]][rc[2]]>> = NormalizeLetter(letter)
             /\ \A q \in Cells \ {rc} :
                  /\ board'[q[1]][q[2]] = board[q[1]][q[2]]
                  /\ owner_board'[q[1]][q[2]] = owner_board[q[1]][q[2]]
             /\ move_count' = move_count + 1
    ]_vars

\* a move succeeded off the main diagonal, on a board that already held letters
C2_Witness ==
  /\ ret = True
  /\ move_count >= 3
  /\ \E rc \in Cells : rc[1] # rc[2] /\ board[rc[1]][rc[2]] # None

\* C3: in every reachable state a cell has an owner (blue or red) if and only
\* if it holds a letter.
C3_OwnerIffValue ==
  \A rc \in Cells :
    /\ owner_board[rc[1]][rc[2]] \in Players \cup {None}
    /\ board[rc[1]][rc[2]] \in Letters \cup {None}
    /\ (owner_board[rc[1]][rc[2]] # None) <=> (board[rc[1]][rc[2]] # None)

\* both players own cells while other cells are still empty
C3_Witness ==
  /\ \E rc \in Cells : owner_board[rc[1]][rc[2]] = "blue"
  /\ \E rc \in Cells : owner_board[rc[1]][rc[2]] = "red"
  /\ \E rc \in Cells : board[rc[1]][rc[2]] = None /\ owner_board[rc[1]][rc[2]] = None

\* C4: in SimpleSOSGame a successful move for which the detector returns a line
\* sets winner to the mover, sets game_over and keeps the turn, however many
\* lines there are, so a terminal state has current_turn = winner =
\* last_move_player; a successful move without a line toggles the turn and
\* leaves game_over false and winner unset.
C4_SimpleWinOrToggle ==
  [][ (variant = "simple" /\ ret' = True) =>
        /\ \A rc \in Filled :
             IF check_for_sos(board', rc[1], rc[2]) # <<>>
             THEN /\ winner' = current_turn
                  /\ game_over' = TRUE
                  /\ current_turn' = current_turn
             ELSE /\ current_turn' # current_turn
                  /\ current_turn' \in Players
                  /\ game_over' = FALSE
                  /\ winner' = None
        /\ Filled # {}
        /\ game_over' => (current_turn' = winner' /\ winner' = last_move_player')
    ]_vars

\* a SimpleSOSGame ended by a move that formed two lines at once
C4_Witness ==
  /\ variant = "simple"
  /\ game_over
  /\ Len(last_sos_lines) >= 2
  /\ winner = current_turn

\* C5: in SimpleSOSGame, whenever three consecutive cells read S, O, S the game
\* is over and the winner is the player who placed the last of them (the game
\* ends at that move, so that player is also last_move_player).
C5_SosOnBoardEndsGame ==
  variant = "simple" =>
    \A t \in Triples :
      ReadsSOS(board, t) =>
        /\ game_over
        /\ winner # None
        /\ winner = last_move_player

\* C6: in GeneralSOSGame the turn toggles after every successful move, so
\* current_turn is blue exactly when move_count is even, and after a
\* successful move current_turn differs from last_move_player.
C6_GeneralTurnAlternates ==
  [][ (variant = "general" /\ ret' = True) =>
        /\ current_turn' \in Players
        /\ current_turn' # current_turn
        /\ current_turn' # last_move_player'
        /\ (current_turn' = "blue") <=> (move_count' % 2 = 0)
    ]_vars

\* the move that filled the board of a GeneralSOSGame also scored
C6_Witness ==
  /\ variant = "general"
  /\ move_count = board_size * board_size
  /\ last_sos_lines # <<>>
  /\ ret = True

\* C7: in GeneralSOSGame every successful move adds the number of lines in
\* last_sos_lines to the mover's score and leaves the other score alone; no
\* score is ever negative.
C7_ScoreAddsLineCount ==
  [][ (variant = "general" /\ ret' = True) =>
        /\ scores'[current_turn] = scores[current_turn] + Len(last_sos_lines')
        /\ \A p \in Players \ {current_turn} : scores'[p] = scores[p]
        /\ \A p \in Players : scores'[p] >= 0
    ]_vars

\* one placement completed two lines and the mover holds at least 2 points
C7_Witness ==
  /\ variant = "general"
  /\ Len(last_sos_lines) = 2
  /\ ret = True
  /\ scores[last_move_player] >= 2

\* C8: in GeneralSOSGame game_over is true exactly when move_count = N*N,
\* whatever lines were formed; a full board that holds no S-O-S span has both
\* scores 0.
C8_GeneralOverIffFull ==
  variant = "general" =>
    /\ game_over <=> (move_count = board_size * board_size)
    /\ (move_count = board_size * board_size
          /\ \A t \in Triples : ~ReadsSOS(board, t))
         => (game_over /\ scores["blue"] = 0 /\ scores["red"] = 0)

\* a GeneralSOSGame filled all cells without a line: a draw at 0 : 0
C8_Witness ==
  /\ variant = "general"
  /\ move_count = board_size * board_size
  /\ game_over
  /\ scores = ZeroScores
  /\ \A rc \in Cells : board[rc[1]][rc[2]] # None

\* C9: reset_game in any reachable state yields the initial state, the
\* variant's outcome (winner, scores) included.
C9_ResetYieldsInitialState ==
  (resets > 0 /\ move_count = 0) =>
    /\ board = EmptyGrid(board_size)
    /\ owner_board = EmptyGrid(board_size)
    /\ current_turn = "blue"
    /\ game_over = FALSE
    /\ last_sos_lines = <<>>
    /\ last_move_player = None
    /\ winner = None
    /\ scores = ZeroScores

\* C10: is_board_full() returns, without an error, whether move_count = N*N.
C10_IsBoardFullAnswers ==
  is_board_full = (IF move_count = board_size * board_size THEN True ELSE False)

\* C11: in SimpleSOSGame game_over is true exactly when winner is set; a board
\* filled without a detected line leaves game_over false and winner unset, and
\* every further make_move is refused, changing nothing.
C11_SimpleOverIffWinner ==
  [][ variant = "simple" =>
        /\ game_over' <=> (winner' # None)
        /\ (move_count' = board_size * board_size /\ last_sos_lines' = <<>>)
             => (game_over' = FALSE /\ winner' = None)
        /\ move_count = board_size * board_size
             => (ret' = False /\ UNCHANGED gameVars)
    ]_vars

\* a call was refused on a full SimpleSOSGame board that nobody won
C11_Witness ==
  /\ variant = "simple"
  /\ move_count = board_size * board_size
  /\ game_over = FALSE
  /\ winner = None
  /\ ret = False

\* the 8 signed directions the detector scans
SignedDirections ==
  { <<0, 1>>, <<1, 0>>, <<1, 1>>, <<1, -1>>,
    <<0, -1>>, <<-1, 0>>, <<-1, -1>>, <<-1, 1>> }

\* the lines C12 expects for (r, c) on board b, written from the claim
ExpectedLines(b, r, c) ==
  { <<r, c, r + 2 * d[1], c + 2 * d[2]>> : d \in
      { d \in SignedDirections :
          /\ <<r, c>> \in Cells
          /\ <<r + d[1], c + d[2]>> \in Cells
          /\ <<r + 2 * d[1], c + 2 * d[2]>> \in Cells
          /\ b[r][c] = "S"
          /\ b[r + d[1]][c + d[2]] = "O"
          /\ b[r + 2 * d[1]][c + 2 * d[2]] = "S" } }

SeqRange(q) == {q[i] : i \in 1..Len(q)}

C13_TwoMovesPlayed ==
  /\ variant = "simple"
  /\ move_count = 2
  /\ board = [EmptyGrid(board_size) EXCEPT ![0][0] = "S", ![0][1] = "O"]

\* the outcome C13 describes for the third move, but for the line itself
C13_WinOutcome ==
  /\ ret' = True
  /\ winner' = current_turn
  /\ game_over' = TRUE
  /\ current_turn' = current_turn
  /\ board'[0][2] = "S"

\* C13 as stated: in SimpleSOSGame, after S at (0,0) and O at (0,1), placing S
\* at (0,2) returns True with last_sos_lines = [(0,0,0,2)], winner = the mover,
\* game_over true and the turn still the mover's.
C13_ThirdMoveWins_AsStated ==
  [][ (C13_TwoMovesPlayed /\ make_move(0, 2, <<"S">>)) =>
        (C13_WinOutcome /\ last_sos_lines' = << <<0, 0, 0, 2>> >>)
    ]_vars

\* C13 amended: the same, with last_sos_lines = [(0,2,0,0)]: the line starts at
\* the cell just played and ends two steps away from it.
C13_ThirdMoveWins ==
  [][ (C13_TwoMovesPlayed /\ make_move(0, 2, <<"S">>)) =>
        (C13_WinOutcome /\ last_sos_lines' = << <<0, 2, 0, 0>> >>)
    ]_vars

\* the third move S at (0,2) has been played and has ended the game
C13_Witness ==
  /\ variant = "simple"
  /\ move_count = 3
  /\ board = [EmptyGrid(board_size) EXCEPT ![0][0] = "S", ![0][1] = "O", ![0][2] = "S"]
  /\ owner_board[0][2] = "blue"
  /\ game_over
  /\ ret = True

\* C14: in_bounds(r, c) is true iff 0 <= r < N and 0 <= c < N; get_cell and
\* get_cell_owner return None out of bounds and the stored value / owner
\* otherwise; cell_empty is true iff (r, c) is in bounds and holds no letter;
\* none of them changes the state.
C14_QueriesAnswer ==
  [][ (query' # query) =>
        LET name == query'[1]
            r == query'[2][1]
            c == query'[2][2]
            res == query'[3]
            inside == r \in 0..(board_size - 1) /\ c \in 0..(board_size - 1)
        IN /\ name = "in_bounds" => res = inside
           /\ name = "get_cell" =>
                res = (IF inside THEN board[r][c] ELSE None)
           /\ name = "get_cell_owner" =>
                res = (IF inside THEN owner_board[r][c] ELSE None)
           /\ name = "cell_empty" =>
                res = (inside /\ board[r][c] = None)
           /\ UNCHANGED gameVars
    ]_vars

\* get_cell_owner answered "red" for a cell red has played
C14_Witness ==
  /\ query # NoQuery
  /\ query[1] = "get_cell_owner"
  /\ query[3] = "red"
  /\ board[query[2][1]][query[2][2]] # None

\* C15: after every successful make_move(r, c, letter), in either variant,
\* last_move_player is the player whose turn it was and is owner_board[r][c],
\* and last_sos_lines is the detector's result for (r, c) on the board after
\* the placement, whatever it was before.
C15_LastMoveRecorded ==
  [][ ret' = True =>
        /\ Filled # {}
        /\ \A rc \in Filled :
             /\ last_move_player' = current_turn
             /\ owner_board'[rc[1]][rc[2]] = current_turn
             /\ last_sos_lines' = check_for_sos(board', rc[1], rc[2])
             /\ SeqRange(last_sos_lines') = ExpectedLines(board', rc[1], rc[2])
    ]_vars

\* blue completed S O S in row 0 with the third move; red's fourth move at
\* (1,0) formed nothing and last_sos_lines is empty again
C15_Witness ==
  /\ variant = "general"
  /\ skips = 0
  /\ move_count = 4
  /\ board[0] = [c \in 0..(board_size - 1) |-> IF c = 1 THEN "O" ELSE "S"]
  /\ scores["blue"] = 1
  /\ last_move_player = "red"
  /\ last_sos_lines = <<>>
  /\ ret = True

\* C16: a GeneralSOSGame always terminates: while some cell is empty the game
\* is not over and a legal move is accepted; no run has more than N*N
\* successful moves; callers that keep making legal moves reach game_over,
\* which is set exactly at the N*N-th successful move; once game_over is true
\* it stays true and every further make_move is rejected.
C16_OpenGameAcceptsMove ==
  variant = "general" =>
    /\ move_count \in 0..(board_size * board_size)
    /\ game_over <=> (move_count = board_size * board_size)
    /\ (\E rc \in Cells : board[rc[1]][rc[2]] = None) =>
          /\ ~game_over
          /\ \A rc \in Cells, l \in Letters :
               board[rc[1]][rc[2]] = None => ~Rejected(rc[1], rc[2], <<l>>)
          /\ \E rc \in Cells, letter \in LetterInputs :
               /\ CallAllowed(rc[1], rc[2], letter)
               /\ ~Rejected(rc[1], rc[2], letter)

C16_OverStaysOver ==
  variant = "general" =>
    /\ ret' = True => move_count' = move_count + 1
    /\ ret' = False => move_count' = move_count
    /\ (game_over' /\ ~game_over) =>
          (ret' = True /\ move_count' = board_size * board_size)
    /\ game_over => (game_over' /\ ret' = False /\ UNCHANGED gameVars)

C16_GeneralGameTerminates ==
  /\ []C16_OpenGameAcceptsMove
  /\ [][C16_OverStaysOver]_vars
  /\ (variant = "general") ~> (game_over /\ move_count = board_size * board_size)

\* a finished GeneralSOSGame has just rejected one more call
C16_Witness ==
  /\ variant = "general"
  /\ game_over
  /\ move_count = board_size * board_size
  /\ \A rc \in Cells : board[rc[1]][rc[2]] # None
  /\ ret = False

\* C17: in every state reached from a fresh game by make_move calls, in
\* either variant, move_count is the number of non-empty cells and lies in
\* 0..N*N, and a non-empty cell is never overwritten: board[r][c] and
\* owner_board[r][c], once set, keep their value.
NonEmptyCells == {rc \in Cells : board[rc[1]][rc[2]] # None}

C17_CountIsNonEmptyCells ==
  /\ move_count = Cardinality(NonEmptyCells)
  /\ move_count \in 0..(board_size * board_size)

C17_CellsKeepValue ==
  \A rc \in NonEmptyCells :
    /\ board'[rc[1]][rc[2]] = board[rc[1]][rc[2]]
    /\ owner_board'[rc[1]][rc[2]] = owner_board[rc[1]][rc[2]]

C17_MoveCountAndNoOverwrite ==
  /\ []C17_CountIsNonEmptyCells
  /\ [][C17_CellsKeepValue]_vars

\* a game in progress has just refused a call and still counts its five
\* letters
C17_Witness ==
  /\ move_count = 5
  /\ Cardinality(NonEmptyCells) = 5
  /\ ~game_over
  /\ ret = False

\* C18: players strictly alternate in both variants: in every state reached
\* from a fresh game by make_move calls, blue owns ceil(move_count / 2) cells
\* and red owns floor(move_count / 2) cells, so blue owns as many cells as red
\* or one more.
OwnedBy(p) == Cardinality({rc \in Cells : owner_board[rc[1]][rc[2]] = p})

C18_OwnersAlternate ==
  /\ OwnedBy("blue") = (move_count + 1) \div 2
  /\ OwnedBy("red") = move_count \div 2
  /\ OwnedBy("blue") - OwnedBy("red") \in {0, 1}

\* blue scored with the third move of a GeneralSOSGame and the turn went to
\* red all the same
C18_Witness ==
  /\ variant = "general"
  /\ move_count = 3
  /\ last_move_player = "blue"
  /\ last_sos_lines # <<>>
  /\ current_turn = "red"
  /\ OwnedBy("blue") = 2
  /\ OwnedBy("red") = 1

\* C19: in a GeneralSOSGame no S-O-S triple is scored twice: in every state
\* reached from a fresh game by make_move calls, scores[blue] + scores[red]
\* is the number of distinct S-O-S triples on the board whose last-placed
\* cell is one of the two "S" endpoints, and so is never more than the number
\* of distinct S-O-S triples on the board.
PlacedAt(rc) == CHOOSE i \in 1..Len(placed) : placed[i] = rc

LastPlaced(t) ==
  CHOOSE k \in 1..3 : \A j \in 1..3 : PlacedAt(t[j]) <= PlacedAt(t[k])

SosTriples == {t \in Triples : ReadsSOS(board, t)}

TypeOK ==
  /\ variant \in {"simple", "general"}
  /\ move_count \in 0..(board_size * board_size)
  /\ current_turn \in Players
  /\ game_over \in BOOLEAN
  /\ winner \in Players \cup {None}
  /\ last_move_player \in Players \cup {None}
  /\ ret \in {None, True, False}
====
